---- MODULE Spec2Model ----
(***************************************************************************)
(* A model of the pareto_front crate: the sequential ParetoFront (push,    *)
(* extend, merge) and the thread-sharded ConcurrentParetoFront.            *)
(*                                                                         *)
(* Rust vectors are modelled as TLA+ sequences.  Rust indexes from 0, TLA+ *)
(* from 1: a Rust index k is position k + 1 here, so the Rust test         *)
(* `index > 0` reads `i > 1`.                                              *)
(***************************************************************************)
EXTENDS Integers, Sequences, FiniteSets, TLC

(***************************************************************************)
(* Bounds of the model.                                                    *)
(***************************************************************************)
\* longest stream of elements pushed into the single front of SpecPush
MaxPush == 4
\* total number of elements offered to the fronts A and B of Spec
MaxOffered == 4
\* length of the sequences handed to extend
ExtLen == 2
\* number of threads pushing into the ConcurrentParetoFront
NThreads == 3
\* total number of pushes into the ConcurrentParetoFront
MaxCPush == 3
\* longest front that SpecTotal starts from
MaxTotLen == 3
\* number of threads that call the ConcurrentParetoFront of SpecAgg
NAggThreads == 2
\* SpecOld: the pushes into the front of the earlier ParetoFront
MaxOldPush == 5

(***************************************************************************)
(* Elements.  The element type of the tests: cost (to minimise), quality   *)
(* and score (to maximise).  quality is the integer of                     *)
(* tests/pareto_element.rs (the f32 of tests/mod.rs times 100).            *)
(***************************************************************************)
ParetoElement(c, q, s) == [cost |-> c, quality |-> q, score |-> s]

\* the four elements of the tests push3 / insert3
ElemX == ParetoElement(35, 50, 4)
ElemY == ParetoElement(350, 5, 2)
ElemZ == ParetoElement(6, 25, 5)
ElemV == ParetoElement(5, 25, 5)
\* three more, so that the universe holds antichains of three (x, z, t and
\* z, t, u), an element dominating two members of them and not the third (v),
\* two crossing pairs (x over u, v over z) and a top (w)
ElemT == ParetoElement(5, 5, 2)
ElemU == ParetoElement(35, 50, 2)
ElemW == ParetoElement(5, 50, 5)

Elem == {ElemX, ElemY, ElemZ, ElemV, ElemT, ElemU, ElemW}

VARIABLES
    dominance,   \* the implementation of Dominate of the element type in use
    panicked     \* TRUE once a call has panicked on an index out of range

\* a faulty variant of dominate: the cost comparison is turned around (cost
\* is maximised)
DominateCostReversed(a, b) ==
    /\ a.cost >= b.cost
    /\ a.quality >= b.quality
    /\ a.score >= b.score
    /\ a # b

\* Dominate::dominate.  The trait leaves the relation to the element type:
\* dominance.custom is FALSE for the tests' ParetoElement, and TRUE for an
\* element type whose dominate is the arbitrary relation dominance.rel
Dominate(a, b) ==
    IF dominance.custom
    THEN <<a, b>> \in dominance.rel
    ELSE /\ a.cost <= b.cost
         /\ a.quality >= b.quality
         /\ a.score >= b.score
         /\ a # b

(***************************************************************************)
(* Vec operations used by the front.                                       *)
(***************************************************************************)
\* Vec::swap(i, j) panics unless both indexes are in range
SwapInBounds(v, i, j) == i \in 1..Len(v) /\ j \in 1..Len(v)

\* a faulty variant of swap: the element at i is copied over the one at j
SwapCopies(v, i, j) == [v EXCEPT ![j] = v[i]]

\* Vec::swap(i, j)
Swap(v, i, j) == [v EXCEPT ![i] = v[j], ![j] = v[i]]

\* Vec::swap_remove(i) panics unless the index is in range
SwapRemoveInBounds(v, i) == i \in 1..Len(v)

\* a faulty variant of swap_remove: the last element is dropped instead of the i-th
SwapRemovePopsLast(v, i) == SubSeq(v, 1, Len(v) - 1)

\* a faulty variant of swap_remove: the vector is cut at i
SwapRemoveTruncates(v, i) == SubSeq(v, 1, i - 1)

\* Vec::swap_remove(i): the element at i is replaced by the last one, and the
\* vector shrinks by one
SwapRemove(v, i) ==
    IF i = Len(v)
    THEN SubSeq(v, 1, Len(v) - 1)
    ELSE SubSeq([v EXCEPT ![i] = v[Len(v)]], 1, Len(v) - 1)

(***************************************************************************)
(* ParetoFront (src/pareto_front/pareto_front.rs)                          *)
(***************************************************************************)
\* ParetoFront::new
NewFront == << >>

\* a faulty variant of the first loop: the member at indexStart, which
\* swap_remove has just moved there, is not looked at
IndexDominatedElementsAfterStart(front, newElement, indexStart) ==
    {i \in (indexStart + 1)..Len(front) : Dominate(newElement, front[i])}

\* the positions >= indexStart of the members that newElement dominates
\* (the first loop of _remove_dominated_starting_at)
IndexDominatedElements(front, newElement, indexStart) ==
    {i \in indexStart..Len(front) : Dominate(newElement, front[i])}

\* a faulty variant of the second loop's order: the listed indexes are taken
\* lowest first (the .rev() is left out)
NextListedAscending(indexes) == CHOOSE i \in indexes : \A j \in indexes : i <= j

\* the order of the second loop of _remove_dominated_starting_at: the listed
\* indexes are taken highest first
NextListed(indexes) == CHOOSE i \in indexes : \A j \in indexes : j <= i

\* the second loop of _remove_dominated_starting_at: swap_remove at each listed
\* index, highest index first
RECURSIVE RemoveListed(_, _)
RemoveListed(front, indexes) ==
    IF indexes = {}
    THEN front
    ELSE LET index == NextListed(indexes)
         IN  RemoveListed(SwapRemove(front, index), indexes \ {index})

\* every swap_remove of the second loop gets an index in range
RECURSIVE RemoveListedInBounds(_, _)
RemoveListedInBounds(front, indexes) ==
    IF indexes = {}
    THEN TRUE
    ELSE LET index == NextListed(indexes)
         IN  /\ SwapRemoveInBounds(front, index)
             /\ RemoveListedInBounds(SwapRemove(front, index), indexes \ {index})

\* a faulty variant of _remove_dominated_starting_at: nothing further is removed
RemoveDominatedStartingAtNoop(front, newElement, indexStart) == front

\* ParetoFront::_remove_dominated_starting_at
RemoveDominatedStartingAt(front, newElement, indexStart) ==
    RemoveListed(front, IndexDominatedElements(front, newElement, indexStart))

\* _remove_dominated_starting_at passes no index out of range
RemoveDominatedStartingAtInBounds(front, newElement, indexStart) ==
    RemoveListedInBounds(front,
                         IndexDominatedElements(front, newElement, indexStart))

\* the loop of _remove_dominated from position index on; the result is the
\* front after the call and the value returned
RECURSIVE RemoveDominatedScan(_, _, _)
RemoveDominatedScan(front, newElement, index) ==
    IF index > Len(front)
    THEN [front |-> front, ret |-> TRUE]
    ELSE IF Dominate(front[index], newElement)
    THEN [front |-> IF index > 1 THEN Swap(front, index, index - 1) ELSE front,
          ret   |-> FALSE]
    ELSE IF Dominate(newElement, front[index])
    THEN [front |-> RemoveDominatedStartingAt(SwapRemove(front, index),
                                              newElement, index),
          ret   |-> TRUE]
    ELSE RemoveDominatedScan(front, newElement, index + 1)

\* a faulty variant of _remove_dominated: nothing is compared, every element
\* is let in
RemoveDominatedAdmitsAll(front, newElement) == [front |-> front, ret |-> TRUE]

\* ParetoFront::_remove_dominated
RemoveDominated(front, newElement) == RemoveDominatedScan(front, newElement, 1)

\* the loop of _remove_dominated from position index on passes no index out
\* of range to swap, to swap_remove or to _remove_dominated_starting_at
RECURSIVE RemoveDominatedScanInBounds(_, _, _)
RemoveDominatedScanInBounds(front, newElement, index) ==
    IF index > Len(front)
    THEN TRUE
    ELSE IF Dominate(front[index], newElement)
    THEN index > 1 => SwapInBounds(front, index, index - 1)
    ELSE IF Dominate(newElement, front[index])
    THEN /\ SwapRemoveInBounds(front, index)
         /\ RemoveDominatedStartingAtInBounds(SwapRemove(front, index),
                                              newElement, index)
    ELSE RemoveDominatedScanInBounds(front, newElement, index + 1)

\* ParetoFront::_remove_dominated passes no index out of range
RemoveDominatedInBounds(front, newElement) ==
    RemoveDominatedScanInBounds(front, newElement, 1)

\* ParetoFront::push passes no index out of range (Vec::push takes none)
PushFrontInBounds(front, newElement) == RemoveDominatedInBounds(front, newElement)

\* a faulty variant of push: the value returned is always true
PushFrontReturnsTrue(front, newElement) ==
    LET r == RemoveDominated(front, newElement)
    IN  [front |-> IF r.ret THEN Append(r.front, newElement) ELSE r.front,
         ret   |-> TRUE]

\* a faulty variant of push: the element is appended whatever _remove_dominated says
PushFrontAlwaysAdds(front, newElement) ==
    LET r == RemoveDominated(front, newElement)
    IN  [front |-> Append(r.front, newElement), ret |-> r.ret]

\* a faulty variant of push: an element equal to a member is not added again
PushFrontDedups(front, newElement) ==
    LET r == RemoveDominated(front, newElement)
        isMember == \E i \in 1..Len(front) : front[i] = newElement
    IN  [front |-> IF r.ret /\ ~isMember THEN Append(r.front, newElement)
                   ELSE r.front,
         ret   |-> r.ret /\ ~isMember]

\* ParetoFront::push; the result is the front after the call and the value
\* returned
PushFront(front, newElement) ==
    LET r == RemoveDominated(front, newElement)
    IN  [front |-> IF r.ret THEN Append(r.front, newElement) ELSE r.front,
         ret   |-> r.ret]

(***************************************************************************)
(* The earlier ParetoFront (src/pareto_front/mod.rs): removal by ascending *)
(* index with the index corrected by the number of removals, and the first *)
(* dominated member replaced in place.                                     *)
(***************************************************************************)
\* index_dominated_elements.into_iter(): the listed indexes come lowest first
OldNextListed(indexes) == CHOOSE i \in indexes : \A j \in indexes : i <= j

\* the second loop of the earlier _remove_dominated_starting_at:
\* swap_remove(index - nb_elements_removed) for each listed index, lowest first
RECURSIVE OldRemoveListed(_, _, _)
OldRemoveListed(front, indexes, nbElementsRemoved) ==
    IF indexes = {}
    THEN front
    ELSE LET index == OldNextListed(indexes)
         IN  OldRemoveListed(SwapRemove(front, index - nbElementsRemoved),
                             indexes \ {index}, nbElementsRemoved + 1)

\* every swap_remove of that loop gets an index in range
RECURSIVE OldRemoveListedInBounds(_, _, _)
OldRemoveListedInBounds(front, indexes, nbElementsRemoved) ==
    IF indexes = {}
    THEN TRUE
    ELSE LET index == OldNextListed(indexes)
         IN  /\ SwapRemoveInBounds(front, index - nbElementsRemoved)
             /\ OldRemoveListedInBounds(SwapRemove(front, index - nbElementsRemoved),
                                        indexes \ {index}, nbElementsRemoved + 1)

\* the earlier ParetoFront::_remove_dominated_starting_at
OldRemoveDominatedStartingAt(front, newElement, indexStart) ==
    OldRemoveListed(front, IndexDominatedElements(front, newElement, indexStart), 0)

\* the loop of the earlier ParetoFront::push from position index on, and the
\* push after the loop; the result is the front after the call and the value
\* returned
RECURSIVE OldPushScan(_, _, _)
OldPushScan(front, newElement, index) ==
    IF index > Len(front)
    THEN [front |-> Append(front, newElement), ret |-> TRUE]
    ELSE IF Dominate(front[index], newElement)
    THEN [front |-> IF index > 1 THEN Swap(front, index, index - 1) ELSE front,
          ret   |-> FALSE]
    ELSE IF Dominate(newElement, front[index])
    THEN [front |-> [OldRemoveDominatedStartingAt(front, newElement, index + 1)
                        EXCEPT ![index] = newElement],
          ret   |-> TRUE]
    ELSE OldPushScan(front, newElement, index + 1)

\* the earlier ParetoFront::push
OldPushFront(front, newElement) == OldPushScan(front, newElement, 1)

\* the earlier push passes no index out of range to swap, to swap_remove or
\* to the assignment front[index] = new_element
RECURSIVE OldPushScanInBounds(_, _, _)
OldPushScanInBounds(front, newElement, index) ==
    IF index > Len(front)
    THEN TRUE
    ELSE IF Dominate(front[index], newElement)
    THEN index > 1 => SwapInBounds(front, index, index - 1)
    ELSE IF Dominate(newElement, front[index])
    THEN /\ OldRemoveListedInBounds(
                front, IndexDominatedElements(front, newElement, index + 1), 0)
         /\ index <= Len(OldRemoveDominatedStartingAt(front, newElement, index + 1))
    ELSE OldPushScanInBounds(front, newElement, index + 1)

OldPushFrontInBounds(front, newElement) == OldPushScanInBounds(front, newElement, 1)

\* a faulty variant of merge's filter: _remove_dominated is run for each x, but its
\* answer is not used and every x is kept
RECURSIVE MergeFilterKeepsAll(_, _, _)
MergeFilterKeepsAll(selfFront, largestFront, kept) ==
    IF largestFront = << >>
    THEN [selfFront |-> selfFront, kept |-> kept]
    ELSE MergeFilterKeepsAll(RemoveDominated(selfFront, Head(largestFront)).front,
                             Tail(largestFront), Append(kept, Head(largestFront)))

\* the filter of merge: each x of largestFront, in order, goes through
\* _remove_dominated of the (evolving) self.front; the x that return true are
\* kept, in order
RECURSIVE MergeFilter(_, _, _)
MergeFilter(selfFront, largestFront, kept) ==
    IF largestFront = << >>
    THEN [selfFront |-> selfFront, kept |-> kept]
    ELSE LET r == RemoveDominated(selfFront, Head(largestFront))
         IN  MergeFilter(r.front, Tail(largestFront),
                         IF r.ret THEN Append(kept, Head(largestFront)) ELSE kept)

\* the filter of merge passes no index out of range
RECURSIVE MergeFilterInBounds(_, _)
MergeFilterInBounds(selfFront, largestFront) ==
    IF largestFront = << >>
    THEN TRUE
    ELSE /\ RemoveDominatedInBounds(selfFront, Head(largestFront))
         /\ MergeFilterInBounds(RemoveDominated(selfFront, Head(largestFront)).front,
                                Tail(largestFront))

\* a faulty variant of merge: the other front is appended without any test
MergeFrontConcat(selfFront, paretoFront) == selfFront \o paretoFront

\* a faulty variant of merge: the filtered largest front is dropped, only what is left
\* of the smallest front is kept
MergeFrontDropsLargest(selfFront, paretoFront) ==
    LET swapped == Len(paretoFront) < Len(selfFront)
        smallest == IF swapped THEN paretoFront ELSE selfFront
        largest  == IF swapped THEN selfFront ELSE paretoFront
    IN  MergeFilter(smallest, largest, << >>).selfFront

\* a faulty variant of merge: the members of the smallest front are tested against the
\* largest front, but the largest front's elements evict nothing
MergeFrontNoEviction(selfFront, paretoFront) ==
    LET swapped == Len(paretoFront) < Len(selfFront)
        smallest == IF swapped THEN paretoFront ELSE selfFront
        largest  == IF swapped THEN selfFront ELSE paretoFront
    IN  MergeFilter(smallest, largest, << >>).kept \o smallest

\* a faulty variant of merge: the largest front is the one that is scanned and
\* mutated, the elements of the smallest front are tested against it
MergeFrontLargerBase(selfFront, paretoFront) ==
    LET swapped == Len(paretoFront) < Len(selfFront)
        smallest == IF swapped THEN paretoFront ELSE selfFront
        largest  == IF swapped THEN selfFront ELSE paretoFront
        f == MergeFilter(largest, smallest, << >>)
    IN  f.kept \o f.selfFront

\* ParetoFront::merge: the new self.front
MergeFront(selfFront, paretoFront) ==
    LET swapped == Len(paretoFront) < Len(selfFront)
        smallest == IF swapped THEN paretoFront ELSE selfFront
        largest  == IF swapped THEN selfFront ELSE paretoFront
        f == MergeFilter(smallest, largest, << >>)
    IN  f.kept \o f.selfFront

\* ParetoFront::merge passes no index out of range
MergeFrontInBounds(selfFront, paretoFront) ==
    IF Len(paretoFront) < Len(selfFront)
    THEN MergeFilterInBounds(paretoFront, selfFront)
    ELSE MergeFilterInBounds(selfFront, paretoFront)

\* a faulty variant of from_iter: the elements are stored as they come
FromIterStoresAll(iter) == iter

\* FromIterator::from_iter: a new front, then push of each element in turn;
\* the front after the first n elements is that after the first n - 1 with
\* the n-th pushed
RECURSIVE FromIter(_)
FromIter(iter) ==
    IF iter = << >>
    THEN NewFront
    ELSE PushFront(FromIter(SubSeq(iter, 1, Len(iter) - 1)), iter[Len(iter)]).front

\* a faulty variant of extend: the divide and conquer approach of the note in
\* extend, a new front is built from iter and merged into self
ExtendFrontByMerge(front, iter) == MergeFront(front, FromIter(iter))

\* Extend::extend: push of each element in turn
RECURSIVE ExtendFront(_, _)
ExtendFront(front, iter) ==
    IF iter = << >>
    THEN front
    ELSE ExtendFront(PushFront(front, Head(iter)).front, Tail(iter))

\* Extend::extend passes no index out of range
RECURSIVE ExtendFrontInBounds(_, _)
ExtendFrontInBounds(front, iter) ==
    IF iter = << >>
    THEN TRUE
    ELSE /\ PushFrontInBounds(front, Head(iter))
         /\ ExtendFrontInBounds(PushFront(front, Head(iter)).front, Tail(iter))

(***************************************************************************)
(* Content of a front, ignoring storage order: how often each element is   *)
(* stored (the tests compare the sorted vectors).                          *)
(***************************************************************************)
Count(v, e) == Cardinality({i \in 1..Len(v) : v[i] = e})

Content(v) == [e \in Elem |-> Count(v, e)]

EmptyBag == [e \in Elem |-> 0]

BagAdd(b, e) == [b EXCEPT ![e] = @ + 1]

BagUnion(a, b) == [e \in Elem |-> a[e] + b[e]]

BagSize(b) ==
    b[ElemX] + b[ElemY] + b[ElemZ] + b[ElemV] + b[ElemT] + b[ElemU] + b[ElemW]

\* the elements of a bag, laid out as one sequence
RECURSIVE SeqOfBag(_)
SeqOfBag(b) ==
    IF \A e \in Elem : b[e] = 0
    THEN << >>
    ELSE LET e == CHOOSE x \in Elem : b[x] > 0
         IN  <<e>> \o SeqOfBag([b EXCEPT ![e] = @ - 1])

\* the reference Pareto front of a bag: the elements that no element of the bag
\* dominates, each as often as the bag holds it
ReferenceFront(b) ==
    [e \in Elem |->
        IF \E d \in Elem : b[d] > 0 /\ Dominate(d, e) THEN 0 ELSE b[e]]

\* no member dominates another
IsAntichain(v) ==
    \A i, j \in 1..Len(v) : i # j => ~Dominate(v[i], v[j])

(***************************************************************************)
(* ConcurrentParetoFront (src/pareto_front/concurrent_pareto_front.rs)     *)
(***************************************************************************)
Threads == 1..NThreads

\* a faulty variant of the ThreadLocal: one entry is shared by all threads
ThreadLocalKeyShared(t) == 1

\* ThreadLocal::get_or_default / get_or: the entry is that of the calling thread
ThreadLocalKey(t) == t

\* the orders in which ThreadLocal::into_iter can yield the fronts of the
\* threads in S: the crate documents no order, so every order is possible
IterOrders(S) ==
    {o \in [1..Cardinality(S) -> S] :
        \A i, j \in 1..Cardinality(S) : i # j => o[i] # o[j]}

\* a faulty variant of the reduction: the fronts are appended to one another
\* without being merged
RECURSIVE ReduceConcat(_, _)
ReduceConcat(frontAcc, rest) ==
    IF rest = << >>
    THEN frontAcc
    ELSE ReduceConcat(frontAcc \o Head(rest), Tail(rest))

\* Iterator::reduce of into_sequential: front_acc.merge(front) for each further
\* front, in iteration order
RECURSIVE Reduce(_, _)
Reduce(frontAcc, rest) ==
    IF rest = << >>
    THEN frontAcc
    ELSE Reduce(MergeFront(frontAcc, Head(rest)), Tail(rest))

\* the merges of into_sequential pass no index out of range
RECURSIVE ReduceInBounds(_, _)
ReduceInBounds(frontAcc, rest) ==
    IF rest = << >>
    THEN TRUE
    ELSE /\ MergeFrontInBounds(frontAcc, Head(rest))
         /\ ReduceInBounds(MergeFront(frontAcc, Head(rest)), Tail(rest))

IntoSequentialInBounds(locals) ==
    locals = << >> \/ ReduceInBounds(Head(locals), Tail(locals))

\* a faulty variant of into_sequential: the first thread-local front is
\* returned, the others are never merged into it
IntoSequentialFirstOnly(locals) ==
    IF locals = << >> THEN NewFront ELSE Head(locals)

\* a faulty variant of into_sequential: without any thread-local front, the
\* front returned holds a default element
IntoSequentialDefaultElement(locals) ==
    IF locals = << >>
    THEN <<ParetoElement(0, 0, 0)>>
    ELSE Reduce(Head(locals), Tail(locals))

\* ConcurrentParetoFront::into_sequential on the thread-local fronts, given in
\* iteration order; unwrap_or_default yields an empty front when there is none
IntoSequentialOf(locals) ==
    IF locals = << >> THEN NewFront ELSE Reduce(Head(locals), Tail(locals))

\* the number of calls of merge that Iterator::reduce makes for the fronts left
RECURSIVE ReduceMerges(_, _)
ReduceMerges(frontAcc, rest) ==
    IF rest = << >>
    THEN 0
    ELSE 1 + ReduceMerges(MergeFront(frontAcc, Head(rest)), Tail(rest))

\* the number of calls of merge that into_sequential makes
IntoSequentialMerges(locals) ==
    IF locals = << >> THEN 0 ELSE ReduceMerges(Head(locals), Tail(locals))

(***************************************************************************)
(* ThreadSafeParetoFront (src/concurrent_pareto_front/mod.rs)              *)
(***************************************************************************)
\* a faulty variant of the closure of reduce: the shorter front is dropped
SafeReduceStepKeepsLarger(f1, f2) == IF Len(f1) > Len(f2) THEN f1 ELSE f2

\* the closure of reduce in ThreadSafeParetoFront::into_sequential: the longer
\* front (f2 when both have the same length) is extended with the elements of
\* the other one
SafeReduceStep(f1, f2) ==
    IF Len(f1) > Len(f2) THEN ExtendFront(f1, f2) ELSE ExtendFront(f2, f1)

\* the extend of that closure passes no index out of range
SafeReduceStepInBounds(f1, f2) ==
    IF Len(f1) > Len(f2) THEN ExtendFrontInBounds(f1, f2)
    ELSE ExtendFrontInBounds(f2, f1)

\* Iterator::reduce of ThreadSafeParetoFront::into_sequential
RECURSIVE SafeReduce(_, _)
SafeReduce(frontAcc, rest) ==
    IF rest = << >>
    THEN frontAcc
    ELSE SafeReduce(SafeReduceStep(frontAcc, Head(rest)), Tail(rest))

RECURSIVE SafeReduceInBounds(_, _)
SafeReduceInBounds(frontAcc, rest) ==
    IF rest = << >>
    THEN TRUE
    ELSE /\ SafeReduceStepInBounds(frontAcc, Head(rest))
         /\ SafeReduceInBounds(SafeReduceStep(frontAcc, Head(rest)), Tail(rest))

\* ThreadSafeParetoFront::into_sequential on the fronts of the cells, given in
\* iteration order; unwrap_or_default yields an empty front when there is none
SafeIntoSequentialOf(locals) ==
    IF locals = << >> THEN NewFront ELSE SafeReduce(Head(locals), Tail(locals))

SafeIntoSequentialInBounds(locals) ==
    locals = << >> \/ SafeReduceInBounds(Head(locals), Tail(locals))

(***************************************************************************)
(* State.                                                                  *)
(***************************************************************************)
VARIABLES
    sfront,      \* SpecPush: the front of one ParetoFront fed by a stream of pushes
    hist,        \* SpecPush: the elements pushed so far, in order
    rets,        \* SpecPush: what each push returned
    fronts,      \* Spec: the front of each of the ParetoFronts A, B
    offered,     \* Spec: the bag of elements pushed or merged into each front
    last,        \* Spec: the last operation, its arguments and its result
    inner_front, \* SpecConc: ConcurrentParetoFront.inner_front, thread -> front
    pc,          \* SpecConc: where each thread is in ConcurrentParetoFront::push
    new_element, \* SpecConc: the argument of each thread's current push
    front_ptr,   \* SpecConc: for each thread that holds a reference `front`,
                 \* the entry of inner_front that it points to
    iter_arg,    \* SpecAgg: the argument of the extend in progress
    ret,         \* SpecConc: what each thread's latest push returned
    rejected,    \* SpecConc: the elements for which some push returned false
    called,      \* SpecConc: the operations each thread has called on the aggregator
    from_front,  \* SpecConc: the front the aggregator was converted from
    pushed,      \* SpecConc: the bag of all elements whose push has returned
    live,        \* SpecConc: FALSE once into_sequential has consumed the aggregator
    sequential,  \* SpecConc: the front into_sequential returned
    folded,      \* SpecConc: the thread-local fronts into_sequential took, in
                 \* the order its iterator yielded them
    safe_front,  \* SpecSafe: ThreadSafeParetoFront.inner_front, thread -> front
    safe_live,   \* SpecSafe: FALSE once its into_sequential has consumed it
    safe_sequential, \* SpecSafe: the front its into_sequential returned
    safe_results \* SpecSafe: for each thread, the elements it has pushed into
                 \* the ThreadSafeParetoFront and not yet into the
                 \* ConcurrentParetoFront, each with the value its push returned

envVars == <<dominance, panicked>>
seqVars == <<sfront, hist, rets>>
frontVars == <<fronts, offered, last>>
concVars ==
    <<inner_front, pc, new_element, front_ptr, iter_arg, ret, rejected, called,
      from_front, pushed, live, sequential, folded>>
safeVars == <<safe_front, safe_live, safe_sequential, safe_results>>
vars == <<envVars, seqVars, frontVars, concVars, safeVars>>

\* the two fronts of Spec: each is in turn merge's self and merge's argument
Fronts == {"A", "B"}

\* what new_element holds for a thread that is not inside push
NoElement == ParetoElement(0, 0, 0)

NoOp ==
    [op |-> "new", self |-> "A", other |-> "A", elems |-> << >>, ret |-> TRUE,
     pre |-> << >>, arg |-> << >>]

\* everything but the element type's dominance and the content of A and B:
\* no operation was called yet, the aggregator is ConcurrentParetoFront::new()
InitCalls ==
    /\ panicked = FALSE
    /\ sfront = NewFront
    /\ hist = << >>
    /\ rets = << >>
    /\ offered = [f \in Fronts |-> EmptyBag]
    /\ last = NoOp
    /\ inner_front = << >>
    /\ pc = [t \in Threads |-> "idle"]
    /\ new_element = [t \in Threads |-> NoElement]
    /\ front_ptr = << >>
    /\ iter_arg = << >>
    /\ ret = [t \in Threads |-> TRUE]
    /\ rejected = {}
    /\ called = [t \in Threads |-> {}]
    /\ from_front = NewFront
    /\ pushed = EmptyBag
    /\ live = TRUE
    /\ sequential = NewFront
    /\ folded = << >>
    /\ safe_front = << >>
    /\ safe_live = TRUE
    /\ safe_sequential = NewFront
    /\ safe_results = [t \in Threads |-> << >>]

\* the elements are the tests' ParetoElement; A and B are ParetoFront::new()
Init ==
    /\ dominance = [custom |-> FALSE, rel |-> {}]
    /\ fronts = [f \in Fronts |-> NewFront]
    /\ InitCalls

(***************************************************************************)
(* SpecPush: one front, built by push alone.                               *)
(***************************************************************************)
StreamPush(e) ==
    /\ Len(hist) < MaxPush
    /\ LET r == PushFront(sfront, e)
       IN  /\ sfront' = r.front
           /\ rets' = Append(rets, r.ret)
    /\ hist' = Append(hist, e)
    /\ panicked' = (panicked \/ ~PushFrontInBounds(sfront, e))
    /\ UNCHANGED <<dominance, frontVars, concVars, safeVars>>

NextPush == \E e \in Elem : StreamPush(e)

SpecPush == Init /\ [][NextPush]_vars

(***************************************************************************)
(* SpecOld: one front of the earlier ParetoFront, built by its push alone. *)
(***************************************************************************)
\* a call that panics leaves the model's front as it was
OldStreamPush(e) ==
    /\ Len(hist) < MaxOldPush
    /\ LET ok == OldPushFrontInBounds(sfront, e)
           r == OldPushFront(sfront, e)
       IN  /\ panicked' = (panicked \/ ~ok)
           /\ sfront' = IF ok THEN r.front ELSE sfront
           /\ rets' = Append(rets, ok /\ r.ret)
    /\ hist' = Append(hist, e)
    /\ UNCHANGED <<dominance, frontVars, concVars, safeVars>>

NextOld == \E e \in Elem : OldStreamPush(e)

SpecOld == Init /\ [][NextOld]_vars

(***************************************************************************)
(* Spec: the fronts A and B under push, extend, collect and merge.         *)
(***************************************************************************)
TotalOffered == BagSize(offered["A"]) + BagSize(offered["B"])

RECURSIVE BagAddAll(_, _)
BagAddAll(b, iter) ==
    IF iter = << >> THEN b ELSE BagAddAll(BagAdd(b, Head(iter)), Tail(iter))

\* front.push(e); a call that panics leaves the model's front as it was
Push(f, e) ==
    /\ LET ok == PushFrontInBounds(fronts[f], e)
           r == PushFront(fronts[f], e)
       IN  /\ panicked' = (panicked \/ ~ok)
           /\ fronts' = IF ok THEN [fronts EXCEPT ![f] = r.front] ELSE fronts
           /\ last' = [op |-> "push", self |-> f, other |-> f, elems |-> <<e>>,
                       ret |-> ok /\ r.ret, pre |-> fronts[f], arg |-> << >>]
    /\ offered' = [offered EXCEPT ![f] = BagAdd(@, e)]
    /\ UNCHANGED <<dominance, seqVars, concVars, safeVars>>

\* front.extend(iter)
Extend(f, iter) ==
    /\ LET ok == ExtendFrontInBounds(fronts[f], iter)
       IN  /\ panicked' = (panicked \/ ~ok)
           /\ fronts' = IF ok THEN [fronts EXCEPT ![f] = ExtendFront(@, iter)]
                        ELSE fronts
    /\ last' = [op |-> "extend", self |-> f, other |-> f, elems |-> iter,
                ret |-> TRUE, pre |-> fronts[f], arg |-> << >>]
    /\ offered' = [offered EXCEPT ![f] = BagAddAll(@, iter)]
    /\ UNCHANGED <<dominance, seqVars, concVars, safeVars>>

\* let f: ParetoFront<_> = iter.collect(): f names a front that was not used yet
Collect(f, iter) ==
    /\ fronts[f] = NewFront
    /\ offered[f] = EmptyBag
    /\ fronts' = [fronts EXCEPT ![f] = FromIter(iter)]
    /\ panicked' = (panicked \/ ~ExtendFrontInBounds(NewFront, iter))
    /\ last' = [op |-> "collect", self |-> f, other |-> f, elems |-> iter,
                ret |-> TRUE, pre |-> fronts[f], arg |-> << >>]
    /\ offered' = [offered EXCEPT ![f] = BagAddAll(@, iter)]
    /\ UNCHANGED <<dominance, seqVars, concVars, safeVars>>

\* f.merge(g): g is consumed; its name stands for a fresh ParetoFront::new()
\* afterwards
Merge(f, g) ==
    /\ f # g
    /\ LET ok == MergeFrontInBounds(fronts[f], fronts[g])
       IN  /\ panicked' = (panicked \/ ~ok)
           /\ fronts' = IF ok
                        THEN [fronts EXCEPT ![f] = MergeFront(fronts[f], fronts[g]),
                                            ![g] = NewFront]
                        ELSE fronts
    /\ last' = [op |-> "merge", self |-> f, other |-> g, elems |-> << >>,
                ret |-> TRUE, pre |-> fronts[f], arg |-> fronts[g]]
    /\ offered' = [offered EXCEPT ![f] = BagUnion(offered[f], offered[g]),
                                  ![g] = EmptyBag]
    /\ UNCHANGED <<dominance, seqVars, concVars, safeVars>>

\* the bound on the elements offered leaves room for n more
Room(n) == TotalOffered + n <= MaxOffered

Next ==
    \/ Room(1) /\ \E f \in Fronts, e \in Elem : Push(f, e)
    \/ Room(ExtLen) /\ \E f \in Fronts, iter \in [1..ExtLen -> Elem] : Extend(f, iter)
    \/ Room(ExtLen) /\ \E f \in Fronts, iter \in [1..ExtLen -> Elem] : Collect(f, iter)
    \/ \E f, g \in Fronts : Merge(f, g)

Spec == Init /\ [][Next]_vars

(***************************************************************************)
(* SpecTotal: one call of push, extend or merge on fronts of any content,  *)
(* for an element type whose dominate is any relation at all (reflexive,   *)
(* symmetric, cyclic, not transitive, ...).                                *)
(***************************************************************************)
\* the elements of SpecTotal: what they are worth is given by dominance.rel
TotElem == {ElemX, ElemY}

\* the sequences over S of length n at most
SeqsUpTo(S, n) == UNION {[1..k -> S] : k \in 0..n}

InitTotal ==
    /\ dominance \in [custom : {TRUE}, rel : SUBSET (TotElem \X TotElem)]
    /\ fronts \in [Fronts -> SeqsUpTo(TotElem, MaxTotLen)]
    /\ InitCalls

NextTotal ==
    /\ last.op = "new"
    /\ \/ \E f \in Fronts, e \in TotElem : Push(f, e)
       \/ \E f \in Fronts, iter \in [1..ExtLen -> TotElem] : Extend(f, iter)
       \/ \E f, g \in Fronts : Merge(f, g)

SpecTotal == InitTotal /\ [][NextTotal]_vars

(***************************************************************************)
(* SpecMain: the fronts A and B under push, extend, collect and merge,     *)
(* with the dominance of the example program (src/main.rs), which has no   *)
(* inequality guard: an element dominates every element equal to it.       *)
(***************************************************************************)
\* a variant of the example program's dominance with the guard self != x
MainDominateGuarded(a, b) ==
    a.cost <= b.cost /\ a.quality >= b.quality /\ a.score >= b.score /\ a # b

\* impl Dominate for ParetoElement of src/main.rs
MainDominate(a, b) ==
    a.cost <= b.cost /\ a.quality >= b.quality /\ a.score >= b.score

InitMain ==
    /\ dominance = [custom |-> TRUE,
                    rel |-> {p \in Elem \X Elem : MainDominate(p[1], p[2])}]
    /\ fronts = [f \in Fronts |-> NewFront]
    /\ InitCalls

SpecMain == InitMain /\ [][Next]_vars

(***************************************************************************)
(* SpecConc: NThreads threads push into one ConcurrentParetoFront, which   *)
(* is then turned into a sequential front.                                 *)
(***************************************************************************)
PushesStarted ==
    BagSize(pushed) + Cardinality({t \in Threads : pc[t] = "push"})

\* a faulty variant of the borrow rule: the calls in progress are not seen
BorrowedNever == FALSE

\* a faulty variant of the borrow rule: a borrow that never ends
BorrowedForever == TRUE

\* a call in progress borrows the aggregator (push takes &self, extend takes
\* &mut self)
Borrowed == \E t \in Threads : pc[t] # "idle"

\* an extend in progress borrows the aggregator mutably
MutBorrowed == \E t \in Threads : pc[t] = "extend"

\* a faulty variant of get_or: the entries of the other threads are lost
GetOrAlone(key, front) ==
    [u \in {key} |-> IF key \in DOMAIN inner_front THEN inner_front[key] ELSE front]

\* a faulty variant of get_or: the entry is replaced when the thread has one
GetOrReplaces(key, front) ==
    [u \in DOMAIN inner_front \cup {key} |->
        IF u = key THEN front ELSE inner_front[u]]

\* a faulty variant of get_or: the entry is created empty, the given front is
\* dropped
GetOrDropsValue(key, front) ==
    IF key \in DOMAIN inner_front
    THEN inner_front
    ELSE [u \in DOMAIN inner_front \cup {key} |->
             IF u = key THEN NewFront ELSE inner_front[u]]

\* front_ptr once thread t holds a reference to the entry key
Referring(t, key) ==
    [u \in DOMAIN front_ptr \cup {t} |-> IF u = t THEN key ELSE front_ptr[u]]

\* front_ptr once the reference of thread t has ended
Released(t) == [u \in DOMAIN front_ptr \ {t} |-> front_ptr[u]]

\* ThreadLocal::get_or(|| front) on inner_front: the thread's entry is created
\* with front when the thread has none, and left alone otherwise
GetOr(key, front) ==
    IF key \in DOMAIN inner_front
    THEN inner_front
    ELSE [u \in DOMAIN inner_front \cup {key} |->
             IF u = key THEN front ELSE inner_front[u]]

\* ConcurrentParetoFront::push, lines 40 to 44: get_or_default resolves the
\* calling thread's front, creating an empty one when the thread has none, and
\* the thread takes a mutable reference to it
GetOrDefault(t, e) ==
    /\ live
    /\ ~MutBorrowed
    /\ pc[t] = "idle"
    /\ PushesStarted < MaxCPush
    /\ inner_front' = GetOr(ThreadLocalKey(t), NewFront)
    /\ front_ptr' = Referring(t, ThreadLocalKey(t))
    /\ pc' = [pc EXCEPT ![t] = "push"]
    /\ new_element' = [new_element EXCEPT ![t] = e]
    /\ called' = [called EXCEPT ![t] = @ \cup {"push"}]
    /\ UNCHANGED <<iter_arg, ret, rejected, from_front, pushed, live, sequential,
                   folded, envVars, seqVars, frontVars>>

\* ConcurrentParetoFront::push, line 46: front.push(new_element) through the
\* thread's reference, which ends with the call
LocalPush(t) ==
    /\ pc[t] = "push"
    /\ t \in DOMAIN front_ptr
    /\ front_ptr[t] \in DOMAIN inner_front
    /\ LET front == inner_front[front_ptr[t]]
           r == PushFront(front, new_element[t])
       IN  /\ inner_front' = [inner_front EXCEPT ![front_ptr[t]] = r.front]
           /\ ret' = [ret EXCEPT ![t] = r.ret]
           /\ rejected' = IF r.ret THEN rejected
                          ELSE rejected \cup {new_element[t]}
           /\ panicked' = (panicked \/ ~PushFrontInBounds(front, new_element[t]))
    /\ pushed' = BagAdd(pushed, new_element[t])
    /\ pc' = [pc EXCEPT ![t] = "idle"]
    /\ new_element' = [new_element EXCEPT ![t] = NoElement]
    /\ front_ptr' = Released(t)
    /\ UNCHANGED <<iter_arg, called, from_front, live, sequential, folded,
                   dominance, seqVars, frontVars>>

\* ConcurrentParetoFront::into_sequential: it takes self by value, which the
\* borrow checker allows when no call borrows the aggregator
IntoSequential ==
    /\ live
    /\ ~Borrowed
    /\ \E order \in IterOrders(DOMAIN inner_front) :
         /\ folded' = [i \in 1..Len(order) |-> inner_front[order[i]]]
         /\ sequential' = IntoSequentialOf(folded')
         /\ panicked' = (panicked \/ ~IntoSequentialInBounds(folded'))
    /\ inner_front' = << >>
    /\ live' = FALSE
    /\ UNCHANGED <<pc, new_element, front_ptr, iter_arg, ret, rejected, called,
                   from_front, pushed, dominance, seqVars, frontVars>>

NextConc ==
    /\ \/ \E t \in Threads, e \in Elem : GetOrDefault(t, e)
       \/ \E t \in Threads : LocalPush(t)
       \/ IntoSequential
    /\ UNCHANGED safeVars

SpecConc == Init /\ [][NextConc]_vars

(***************************************************************************)
(* SpecAgg: the whole life of one ConcurrentParetoFront: built by new() or *)
(* converted from a ParetoFront, fed by push and extend, consumed by       *)
(* into_sequential.                                                        *)
(***************************************************************************)
\* the elements of SpecAgg: x dominates y
AggElem == {ElemX, ElemY}

\* the threads of SpecAgg
AggThreads == 1..NAggThreads

\* the iterators handed to extend and to the front that is converted
AggIters == [1..ExtLen -> AggElem] \cup {<< >>}

\* ConcurrentParetoFront::from(front), called by thread t in place of new():
\* get_or, on the new ThreadLocal, makes front the entry of the calling thread
FromParetoFront(t, front) ==
    /\ live
    /\ ~Borrowed
    /\ inner_front = << >>
    /\ \A u \in Threads : called[u] = {}
    /\ inner_front' = GetOr(ThreadLocalKey(t), front)
    /\ called' = [called EXCEPT ![t] = {"from"}]
    /\ from_front' = front
    /\ UNCHANGED <<pc, new_element, front_ptr, iter_arg, ret, rejected, pushed,
                   live, sequential, folded, envVars, seqVars, frontVars>>

\* Extend::extend of the ConcurrentParetoFront, lines 145 to 149: &mut self
\* means that no other call is in progress; get_or_default resolves the calling
\* thread's front and the thread takes a mutable reference to it
ExtendGetOrDefault(t, iter) ==
    /\ live
    /\ ~Borrowed
    /\ BagSize(pushed) + Len(iter) <= MaxCPush
    /\ inner_front' = GetOr(ThreadLocalKey(t), NewFront)
    /\ front_ptr' = Referring(t, ThreadLocalKey(t))
    /\ pc' = [pc EXCEPT ![t] = "extend"]
    /\ iter_arg' = iter
    /\ called' = [called EXCEPT ![t] = @ \cup {"extend"}]
    /\ UNCHANGED <<new_element, ret, rejected, from_front, pushed, live,
                   sequential, folded, envVars, seqVars, frontVars>>

\* Extend::extend of the ConcurrentParetoFront, line 151: front.extend(iter)
\* through the thread's reference
LocalExtend(t) ==
    /\ pc[t] = "extend"
    /\ t \in DOMAIN front_ptr
    /\ front_ptr[t] \in DOMAIN inner_front
    /\ LET front == inner_front[front_ptr[t]]
       IN  /\ inner_front' =
                 [inner_front EXCEPT ![front_ptr[t]] = ExtendFront(front, iter_arg)]
           /\ panicked' = (panicked \/ ~ExtendFrontInBounds(front, iter_arg))
    /\ pushed' = BagAddAll(pushed, iter_arg)
    /\ pc' = [pc EXCEPT ![t] = "idle"]
    /\ iter_arg' = << >>
    /\ front_ptr' = Released(t)
    /\ UNCHANGED <<new_element, ret, rejected, called, from_front, live,
                   sequential, folded, dominance, seqVars, frontVars>>

NextAgg ==
    /\ \/ \E t \in AggThreads, iter \in AggIters : FromParetoFront(t, FromIter(iter))
       \/ \E t \in AggThreads, e \in AggElem : GetOrDefault(t, e)
       \/ \E t \in AggThreads : LocalPush(t)
       \/ \E t \in AggThreads, iter \in AggIters : ExtendGetOrDefault(t, iter)
       \/ \E t \in AggThreads : LocalExtend(t)
       \/ IntoSequential
    /\ UNCHANGED safeVars

SpecAgg == Init /\ [][NextAgg]_vars

(***************************************************************************)
(* SpecLive: the threads of AggThreads push into one ConcurrentParetoFront *)
(* and into_sequential is called.  A thread that is inside push runs on    *)
(* to the end of the call, which waits for nothing, and the owner of the   *)
(* aggregator calls into_sequential once no call borrows it.               *)
(***************************************************************************)
NextLive ==
    /\ \/ \E t \in AggThreads, e \in AggElem : GetOrDefault(t, e)
       \/ \E t \in AggThreads : LocalPush(t)
       \/ IntoSequential
    /\ UNCHANGED safeVars

\* The last conjunct is WF_vars(IntoSequential) written out: into_sequential
\* is enabled exactly when the aggregator is live and no call borrows it, and
\* its one step ends that for good, so weak fairness says that it is not left
\* enabled for ever.
SpecLive ==
    /\ Init
    /\ [][NextLive]_vars
    /\ \A t \in AggThreads : WF_vars(LocalPush(t) /\ UNCHANGED safeVars)
    /\ []<>(~(live /\ ~Borrowed))

(***************************************************************************)
(* SpecSafe: the threads of AggThreads push into a ThreadSafeParetoFront;  *)
(* every element a thread has pushed there it pushes, in the same order    *)
(* and at any later time, into a ConcurrentParetoFront.  Both are then     *)
(* turned into sequential fronts.                                          *)
(***************************************************************************)
\* the elements of SpecSafe: x and z dominate y
SafeElem == {ElemX, ElemY, ElemZ}

\* the pushes into the ThreadSafeParetoFront so far
SafePushes ==
    LET RECURSIVE Sum(_)
        Sum(S) == IF S = {} THEN 0
                  ELSE LET t == CHOOSE u \in S : TRUE
                       IN  Len(safe_results[t]) + Sum(S \ {t})
    IN  BagSize(pushed) + Sum(Threads)

\* ThreadSafeParetoFront::push by thread t: get_or_default resolves the cell of
\* the calling thread, creating one with an empty front when the thread has
\* none; borrow_mut borrows its front, which nothing else borrows, until the
\* call returns; front.push(new_element)
SafePush(t, e) ==
    /\ safe_live
    /\ SafePushes < MaxCPush
    /\ LET key == ThreadLocalKey(t)
           front == IF key \in DOMAIN safe_front THEN safe_front[key] ELSE NewFront
           r == PushFront(front, e)
       IN  /\ safe_front' = [u \in DOMAIN safe_front \cup {key} |->
                                IF u = key THEN r.front ELSE safe_front[u]]
           /\ safe_results' = [safe_results EXCEPT
                                  ![t] = Append(@, [elem |-> e, ret |-> r.ret])]
           /\ panicked' = (panicked \/ ~PushFrontInBounds(front, e))
    /\ UNCHANGED <<safe_live, safe_sequential, dominance, seqVars, frontVars,
                   concVars>>

\* ThreadSafeParetoFront::into_sequential: it takes self by value
SafeIntoSequential ==
    /\ safe_live
    /\ \E order \in IterOrders(DOMAIN safe_front) :
         LET locals == [i \in 1..Len(order) |-> safe_front[order[i]]]
         IN  /\ safe_sequential' = SafeIntoSequentialOf(locals)
             /\ panicked' = (panicked \/ ~SafeIntoSequentialInBounds(locals))
    /\ safe_front' = << >>
    /\ safe_live' = FALSE
    /\ UNCHANGED <<safe_results, dominance, seqVars, frontVars, concVars>>

\* thread t starts the push into the ConcurrentParetoFront of the next element
\* it has pushed into the ThreadSafeParetoFront
ReplayGetOrDefault(t) ==
    /\ safe_results[t] # << >>
    /\ GetOrDefault(t, Head(safe_results[t]).elem)
    /\ UNCHANGED safeVars

\* and ends it
ReplayLocalPush(t) ==
    /\ LocalPush(t)
    /\ safe_results' = [safe_results EXCEPT ![t] = Tail(@)]
    /\ UNCHANGED <<safe_front, safe_live, safe_sequential>>

\* into_sequential of the ConcurrentParetoFront, once it was given every
\* element that the ThreadSafeParetoFront was given
ReplayIntoSequential ==
    /\ ~safe_live
    /\ \A t \in Threads : safe_results[t] = << >>
    /\ IntoSequential
    /\ UNCHANGED safeVars

NextSafe ==
    \/ \E t \in AggThreads, e \in SafeElem : SafePush(t, e)
    \/ SafeIntoSequential
    \/ \E t \in AggThreads : ReplayGetOrDefault(t)
    \/ \E t \in AggThreads : ReplayLocalPush(t)
    \/ ReplayIntoSequential

SpecSafe == Init /\ [][NextSafe]_vars

(***************************************************************************)
(* Claims.                                                                 *)
(***************************************************************************)
\* the front of the last operation of Spec, after it
LastPost == fronts[last.self]

\* C1 (Spec): every front reached from empty fronts by push, extend and merge is
\* an antichain: no stored element dominates the element at another position.
C1_Antichain == \A f \in Fronts : IsAntichain(fronts[f])

\* a merge of two fronts of two elements and more, in which elements were
\* dropped and two or more are left
C1_Witness ==
    /\ last.op = "merge"
    /\ Len(last.pre) >= 2 /\ Len(last.arg) >= 2
    /\ Len(LastPost) < Len(last.pre) + Len(last.arg)
    /\ Len(LastPost) >= 2

\* C2 (Spec): push(e) adds e exactly when no member dominates e, and returns
\* true exactly when e is a member right after the call (false exactly when e
\* was dominated and not added).
C2_PushContract ==
    last.op = "push" =>
        LET e == last.elems[1]
            dominated == \E i \in 1..Len(last.pre) : Dominate(last.pre[i], e)
            added == Count(LastPost, e) = Count(last.pre, e) + 1
        IN  /\ added <=> ~dominated
            /\ ~added => Count(LastPost, e) = Count(last.pre, e)
            /\ last.ret <=> Count(LastPost, e) > 0
            /\ ~last.ret <=> (dominated /\ ~added)

\* a push rejected by a member that is not the first one
C2_Witness ==
    /\ last.op = "push"
    /\ ~last.ret
    /\ Len(last.pre) >= 2
    /\ ~Dominate(last.pre[1], last.elems[1])

\* C3 (SpecPush): after the pushes of hist into an empty front, the content is
\* the reference Pareto front of hist: the elements that no element of hist
\* dominates, each as often as it was pushed.
C3_ReferenceFront == Content(sfront) = ReferenceFront(Content(hist))

\* a stream with an evicted element, a rejected element and an element kept
\* twice
C3_Witness ==
    /\ \E i \in 1..Len(hist) : rets[i] /\ Count(sfront, hist[i]) = 0
    /\ \E i \in 1..Len(hist) : ~rets[i]
    /\ \E e \in Elem : Count(sfront, e) = 2

\* C4 (SpecConc): whatever the threads, the routing of the elements to them,
\* the interleaving of their pushes and the order of the fold, the front that
\* into_sequential returns has the content of a sequential ParetoFront into
\* which the same elements were pushed.
C4_ConcurrentEqualsSequential ==
    ~live => Content(sequential) = Content(ExtendFront(NewFront, SeqOfBag(pushed)))

\* into_sequential folded two or more thread-local fronts, one holding an
\* element that dominates an element of another
C4_Witness ==
    /\ ~live
    /\ \E i, j \in 1..Len(folded) :
         /\ i # j
         /\ \E k \in 1..Len(folded[i]), l \in 1..Len(folded[j]) :
              Dominate(folded[i][k], folded[j][l])

\* hist in the order perm
Permuted(perm) == [i \in 1..Len(hist) |-> hist[perm[i]]]

\* C5 (SpecPush): pushing the elements of hist in any other order into an empty
\* front gives the content that the pushes in the order of hist gave.
C5_OrderIndependence ==
    \A perm \in Permutations(1..Len(hist)) :
        Content(ExtendFront(NewFront, Permuted(perm))) = Content(sfront)

\* a stream of which an element was evicted, and which in another order is
\* stored differently
C5_Witness ==
    /\ \E i \in 1..Len(hist) : rets[i] /\ Count(sfront, hist[i]) = 0
    /\ \E perm \in Permutations(1..Len(hist)) :
         ExtendFront(NewFront, Permuted(perm)) # sfront

\* C6 (Spec): a front built from parts, each part pushed into a front of its
\* own and the fronts folded with merge, has the content of one front into
\* which all the elements were pushed.
C6_PartitionIndependence ==
    \A f \in Fronts :
        Content(fronts[f]) = Content(ExtendFront(NewFront, SeqOfBag(offered[f])))

\* a merge of two non-empty parts, one of which holds an element that the
\* other dominates
C6_Witness ==
    /\ last.op = "merge"
    /\ last.pre # << >> /\ last.arg # << >>
    /\ \E i \in 1..Len(last.pre), j \in 1..Len(last.arg) :
         Dominate(last.pre[i], last.arg[j])
    /\ BagSize(offered[last.self]) > Len(last.pre) + Len(last.arg)

\* C7 (Spec): after A.merge(B), A and B antichains, A holds exactly the
\* elements of A and B that no element of A or B dominates, each as often as A
\* and B held it; the result is an antichain.
C7_MergeContract ==
    (last.op = "merge" /\ IsAntichain(last.pre) /\ IsAntichain(last.arg)) =>
        /\ Content(LastPost) =
             ReferenceFront(BagUnion(Content(last.pre), Content(last.arg)))
        /\ IsAntichain(LastPost)

\* a merge in which elements of both fronts were dropped
C7_Witness ==
    /\ last.op = "merge"
    /\ \E i \in 1..Len(last.pre) : Count(LastPost, last.pre[i]) = 0
    /\ \E j \in 1..Len(last.arg) : Count(LastPost, last.arg[j]) = 0

\* the thread-local fronts, and those into_sequential took
LocalFronts == {inner_front[t] : t \in DOMAIN inner_front}

\* C8 (SpecConc): on contents merge is commutative and associative over the
\* thread-local fronts, and the content of what into_sequential returns is the
\* content of the fold in every other order.
C8_FoldOrderIndependence ==
    /\ \A a, b \in DOMAIN inner_front :
         a # b =>
           Content(MergeFront(inner_front[a], inner_front[b]))
             = Content(MergeFront(inner_front[b], inner_front[a]))
    /\ \A a, b, c \in DOMAIN inner_front :
         (a # b /\ b # c /\ a # c) =>
           Content(MergeFront(MergeFront(inner_front[a], inner_front[b]),
                              inner_front[c]))
             = Content(MergeFront(inner_front[a],
                                  MergeFront(inner_front[b], inner_front[c])))
    /\ ~live =>
         \A o \in Permutations(1..Len(folded)) :
           Content(IntoSequentialOf([i \in 1..Len(folded) |-> folded[o[i]]]))
             = Content(sequential)

\* three thread-local fronts whose merges, nested one way and the other, drop
\* an element and are stored differently
C8_Witness ==
    \E a, b, c \in DOMAIN inner_front :
        /\ a # b /\ b # c /\ a # c
        /\ MergeFront(MergeFront(inner_front[a], inner_front[b]), inner_front[c])
             # MergeFront(inner_front[a],
                          MergeFront(inner_front[b], inner_front[c]))
        /\ Len(MergeFront(MergeFront(inner_front[a], inner_front[b]),
                          inner_front[c]))
             < Len(inner_front[a]) + Len(inner_front[b]) + Len(inner_front[c])

\* C9 (Spec): F.merge(empty) leaves the content of F unchanged, and
\* empty.merge(F) gives a front with the content of F.
C9_MergeIdentity ==
    last.op = "merge" =>
        /\ last.arg = NewFront => Content(LastPost) = Content(last.pre)
        /\ last.pre = NewFront => Content(LastPost) = Content(last.arg)

\* an empty front into which a front of two elements or more was merged
C9_Witness ==
    /\ last.op = "merge"
    /\ last.pre = NewFront
    /\ Len(last.arg) >= 2
    /\ Len(LastPost) >= 2

\* the pushes of the tests push3 / insert3
Scenario == <<ElemX, ElemY, ElemZ, ElemV>>

\* C10 (SpecPush): the pushes of x, y, z, v in that order into an empty front
\* return true, false, true, true; z is in the front until v arrives, and the
\* final front holds exactly x and v.
C10_Scenario ==
    /\ \A n \in 1..Len(Scenario) :
         hist = SubSeq(Scenario, 1, n) =>
           rets = SubSeq(<<TRUE, FALSE, TRUE, TRUE>>, 1, n)
    /\ hist = SubSeq(Scenario, 1, 3) => Count(sfront, ElemZ) = 1
    /\ hist = Scenario =>
         /\ Len(sfront) = 2
         /\ Count(sfront, ElemX) = 1
         /\ Count(sfront, ElemV) = 1

\* the four pushes were made
C10_Witness == hist = Scenario

\* C11 (SpecAgg): a push that returned false is definitive: once
\* into_sequential has run, no element equal to a rejected one is in the front
\* it returned.  (That a push that returned true is provisional is an
\* existence statement: C11_Witness is such an execution.)
C11_FalseIsDefinitive ==
    ~live => \A e \in rejected : Count(sequential, e) = 0

\* an aggregator fed by push alone, then consumed: one push was rejected, and
\* an element that its thread's front accepted and still held at the reduction
\* is absent from the result, a member of another thread's front dominating it
C11_Witness ==
    /\ ~live
    /\ \A t \in Threads : called[t] \subseteq {"push"}
    /\ rejected # {}
    /\ \E i, j \in 1..Len(folded) :
         /\ i # j
         /\ \E k \in 1..Len(folded[i]), m \in 1..Len(folded[j]) :
              /\ Count(sequential, folded[i][k]) = 0
              /\ Dominate(folded[j][m], folded[i][k])

\* C12 (SpecAgg): a push or an extend by thread t reads and modifies the front
\* of t alone: the call leaves t's front as a sequential push (extend) of the
\* argument leaves it, push returns what that sequential push returns, and
\* the front of every other thread is the same before and after each step of
\* the call.
C12_OwnShardOnly ==
    [][\A t \in Threads :
          LET others == DOMAIN inner_front \ {t}
              othersKept ==
                  /\ DOMAIN inner_front' \subseteq DOMAIN inner_front \cup {t}
                  /\ \A u \in others :
                       /\ u \in DOMAIN inner_front'
                       /\ inner_front'[u] = inner_front[u]
          IN  /\ (pc[t] = "idle" /\ pc'[t] # "idle") => othersKept
              /\ (pc[t] = "push" /\ pc'[t] = "idle") =>
                    /\ othersKept
                    /\ t \in DOMAIN inner_front
                    /\ t \in DOMAIN inner_front'
                    /\ inner_front'[t] =
                           PushFront(inner_front[t], new_element[t]).front
                    /\ ret'[t] = PushFront(inner_front[t], new_element[t]).ret
              /\ (pc[t] = "extend" /\ pc'[t] = "idle") =>
                    /\ othersKept
                    /\ t \in DOMAIN inner_front
                    /\ t \in DOMAIN inner_front'
                    /\ inner_front'[t] = ExtendFront(inner_front[t], iter_arg)
      ]_vars

\* a thread whose latest push was rejected by its own front, which it also
\* extended, while another thread's front holds elements
C12_Witness ==
    \E t, u \in Threads :
        /\ t # u
        /\ pc[t] = "idle" /\ ~ret[t]
        /\ called[t] = {"push", "extend"}
        /\ u \in DOMAIN inner_front /\ inner_front[u] # << >>

\* C13 (SpecAgg): no two threads hold a reference to the same thread-local
\* front at the same time; the reference a thread holds, from get_or_default
\* to the end of its call, is to the front keyed by that thread; an extend in
\* progress is the only call in progress; and no reference is left once
\* into_sequential has taken the fronts.
C13_ShardExclusivity ==
    /\ \A t, u \in DOMAIN front_ptr : t # u => front_ptr[t] # front_ptr[u]
    /\ \A t \in DOMAIN front_ptr :
         /\ front_ptr[t] = t
         /\ front_ptr[t] \in DOMAIN inner_front
    /\ \A t \in Threads :
         /\ t \in DOMAIN front_ptr <=> pc[t] # "idle"
         /\ pc[t] = "extend" => \A u \in Threads \ {t} : pc[u] = "idle"
    /\ ~live => DOMAIN front_ptr = {}

\* two threads are inside push at the same time, each on a front that holds
\* elements already
C13_Witness ==
    \E t, u \in Threads :
        /\ t # u
        /\ pc[t] = "push" /\ pc[u] = "push"
        /\ inner_front[t] # << >> /\ inner_front[u] # << >>

\* the threads that have called push
Pushers == {t \in Threads : "push" \in called[t]}

\* the threads that have called push or extend, or converted a front
Callers == {t \in Threads : called[t] # {}}

\* C14 as stated (SpecAgg): the number of thread-local fronts is the number of
\* threads that have pushed.
C14_ShardsArePushers ==
    live => Cardinality(DOMAIN inner_front) = Cardinality(Pushers)

\* C14, amended (SpecAgg): a thread's front is absent, then created, then
\* grows, then is consumed.  It is created by the thread's first call of push
\* or extend (then empty; also when the first calls of several threads
\* overlap, each thread getting its own front), or by the conversion from a
\* ParetoFront (then with that front's content); so, until the aggregator is
\* consumed, the threads that have a front are the threads that have called
\* push or extend or made the conversion.  A front that exists stays until
\* into_sequential, which leaves none, and no later call creates it anew.
C14_ShardLifecycle ==
    [][/\ live => DOMAIN inner_front = Callers
       /\ live' => DOMAIN inner_front' = Callers'
       /\ ~live' => inner_front' = << >>
       /\ \A t \in Threads :
            /\ (t \in DOMAIN inner_front /\ live') => t \in DOMAIN inner_front'
            /\ (t \notin DOMAIN inner_front /\ t \in DOMAIN inner_front') =>
                  /\ called[t] = {}
                  /\ \/ /\ pc[t] = "idle" /\ pc'[t] # "idle"
                        /\ inner_front'[t] = NewFront
                     \/ /\ called'[t] = {"from"}
                        /\ inner_front'[t] = from_front'
            /\ (t \in DOMAIN inner_front /\ pc[t] = "idle" /\ pc'[t] # "idle") =>
                  /\ t \in DOMAIN inner_front'
                  /\ inner_front'[t] = inner_front[t]
      ]_vars

\* one thread converted a front that holds elements and has pushed since;
\* another thread is inside its first push, on a front just created empty
C14_Witness ==
    \E t, u \in Threads :
        /\ t # u
        /\ live
        /\ called[t] = {"from", "push"} /\ from_front # << >>
        /\ pc[t] = "push"
        /\ called[u] = {"push"} /\ pc[u] = "push" /\ inner_front[u] = NewFront

\* C15 (SpecAgg): the aggregator goes from live to consumed once and for all,
\* by into_sequential: that step happens when no call is in progress, takes
\* every thread-local front (folded holds each of them once, inner_front is
\* left empty), and nothing happens to the aggregator afterwards: no push
\* starts, none completes.
C15_AggregatorLifecycle ==
    [][/\ ~live => UNCHANGED concVars
       /\ ~live' => \A t \in Threads : pc'[t] = "idle"
       /\ (live /\ ~live') =>
             /\ \A t \in Threads : pc[t] = "idle"
             /\ inner_front' = << >>
             /\ \E order \in IterOrders(DOMAIN inner_front) :
                  folded' = [i \in 1..Len(order) |-> inner_front[order[i]]]
             /\ pushed' = pushed /\ pc' = pc
      ]_vars

\* a consumed aggregator that had two fronts with elements, fed by push and
\* by extend
C15_Witness ==
    /\ ~live
    /\ Len(folded) = 2 /\ folded[1] # << >> /\ folded[2] # << >>
    /\ \E t \in Threads : "push" \in called[t]
    /\ \E t \in Threads : "extend" \in called[t]

\* C16 (SpecAgg): into_sequential on an aggregator without any thread-local
\* front (new(), and no push since) returns an empty ParetoFront.
C16_NoShardEmptyFront ==
    (~live /\ folded = << >>) => sequential = NewFront

\* into_sequential was called on ConcurrentParetoFront::new() right away
C16_Witness ==
    /\ ~live
    /\ Len(folded) = 0
    /\ Callers = {}

\* C17 (SpecTotal): push, extend and merge pass no index out of range to swap
\* and swap_remove, whatever the fronts hold and whatever relation dominate
\* is.
C17_Totality == ~panicked

\* a push, under a relation in which an element dominates itself, that removed
\* two members or more
C17_Witness ==
    /\ last.op = "push"
    /\ \E e \in TotElem : <<e, e>> \in dominance.rel
    /\ Len(LastPost) < Len(last.pre)
    /\ ~panicked

\* front after push of each element of iter, first to last: the front after
\* the first n is the front after the first n - 1 with the n-th pushed
RECURSIVE PushedInOrder(_, _)
PushedInOrder(front, iter) ==
    IF iter = << >>
    THEN front
    ELSE PushFront(PushedInOrder(front, SubSeq(iter, 1, Len(iter) - 1)),
                   iter[Len(iter)]).front

\* C18 (Spec): extend(iter) leaves the front as push of each element of iter in
\* order leaves it, storage order included; a front collected from iter is the
\* front that extend(iter) makes of an empty front.
C18_ExtendIsPushes ==
    /\ last.op = "extend" => LastPost = PushedInOrder(last.pre, last.elems)
    /\ last.op = "collect" => LastPost = ExtendFront(NewFront, last.elems)

\* an extend of a front of two members or more, which removed members
C18_Witness ==
    /\ last.op = "extend"
    /\ Len(last.pre) >= 2
    /\ \E i \in 1..Len(last.pre) : Count(LastPost, last.pre[i]) = 0
    /\ \E i \in 1..Len(last.elems) : Count(LastPost, last.elems[i]) > 0

\* C19 (Spec): the push of an element equal to a member (under the tests'
\* dominate, for which an element does not dominate its equals) returns true
\* and adds one more copy: the front is one longer.
C19_Duplicates ==
    LET e == last.elems[1]
    IN  (last.op = "push" /\ Count(last.pre, e) >= 1 /\ ~Dominate(e, e)) =>
            /\ last.ret
            /\ Len(LastPost) = Len(last.pre) + 1
            /\ Count(LastPost, e) = Count(last.pre, e) + 1

\* the push of an element that the front, of two members or more, held already
C19_Witness ==
    /\ last.op = "push"
    /\ Len(last.pre) >= 2
    /\ Count(last.pre, last.elems[1]) >= 1
    /\ Count(LastPost, last.elems[1]) >= 2

\* the only element of a bag of one element
TheElement(b) == CHOOSE e \in Elem : b[e] > 0

\* C20 (SpecAgg): the conversion from a ParetoFront F makes F the front of the
\* converting thread: into_sequential returns the content of F with the
\* pushed elements pushed onto it (the content of F when nothing was pushed),
\* and the first push of the converting thread is tested against the members
\* of F.
C20_FromRoundTrip ==
    /\ ~live =>
          Content(sequential) =
              Content(ExtendFront(from_front, SeqOfBag(pushed)))
    /\ (~live /\ BagSize(pushed) = 0) => Content(sequential) = Content(from_front)
    /\ \A t \in Threads :
          (/\ called[t] = {"from", "push"}
           /\ pc[t] = "idle"
           /\ BagSize(pushed) = 1
           /\ \A u \in Threads \ {t} : "push" \in called[u] => pc[u] = "push")
          => LET e == TheElement(pushed)
             IN  /\ ret[t] <=>
                       ~\E k \in 1..Len(from_front) : Dominate(from_front[k], e)
                 /\ live => inner_front[t] = PushFront(from_front, e).front

\* a front that holds elements was converted; the converting thread pushed an
\* element that a member of that front dominates, and into_sequential then
\* returned the front that was converted
C20_Witness ==
    /\ ~live
    /\ from_front # << >>
    /\ sequential = from_front
    /\ \E t \in Threads : called[t] = {"from", "push"} /\ ~ret[t]
    /\ BagSize(pushed) = 1

\* the elements of xs tested in turn against the evolving front base with the
\* admit/reject logic of push: an element is kept when push admits it, and the
\* base is what push leaves of it, the admitted element set apart
RECURSIVE TestedAgainst(_, _, _)
TestedAgainst(base, xs, kept) ==
    IF xs = << >>
    THEN [base |-> base, kept |-> kept]
    ELSE LET r == PushFront(base, Head(xs))
         IN  IF r.ret
             THEN TestedAgainst(SubSeq(r.front, 1, Len(r.front) - 1), Tail(xs),
                                Append(kept, Head(xs)))
             ELSE TestedAgainst(r.front, Tail(xs), kept)

\* C21 as stated (Spec): in merge the larger front is the base that is scanned
\* and mutated, and the elements of the smaller front are tested against it:
\* the front after merge is made of what is left of the larger front and of the
\* kept elements of the smaller one (either front may be the base when both
\* have the same length).
C21_LargerIsBase ==
    last.op = "merge" =>
        \E base, tested \in {last.pre, last.arg} :
            /\ {base, tested} = {last.pre, last.arg}
            /\ Len(base) >= Len(tested)
            /\ LET r == TestedAgainst(base, tested, << >>)
               IN  LastPost \in {r.base \o r.kept, r.kept \o r.base}

\* C21, amended (Spec): in merge the smaller front (self when both have the
\* same length) is the base that is scanned and mutated, and each element of
\* the larger front is tested in turn against that evolving base with push's
\* admit/reject logic; the front after merge is the kept elements of the larger
\* front, in their order, followed by what is left of the base.
C21_SmallerIsBase ==
    last.op = "merge" =>
        LET swapped == Len(last.arg) < Len(last.pre)
            base   == IF swapped THEN last.arg ELSE last.pre
            tested == IF swapped THEN last.pre ELSE last.arg
            r == TestedAgainst(base, tested, << >>)
        IN  LastPost = r.kept \o r.base

\* a merge of a front of one element with a front of three, one of which the
\* smaller front's element dominates
C21_Witness ==
    /\ last.op = "merge"
    /\ {Len(last.pre), Len(last.arg)} = {1, 3}
    /\ Len(LastPost) = 3
    /\ \E e \in {last.pre[1], last.arg[1]} :
         /\ <<e>> \in {last.pre, last.arg}
         /\ Count(LastPost, e) = 1

\* the members of front that e does not dominate, as a bag
NotDominatedBy(front, e) ==
    [x \in Elem |-> IF Dominate(e, x) THEN 0 ELSE Count(front, x)]

C23_OldPushCorrect ==
    /\ IsAntichain(sfront)
    /\ Content(sfront) = ReferenceFront(Content(hist))

\* the position of the first member of front that dominates e
FirstDominating(front, e) ==
    CHOOSE i \in 1..Len(front) :
        /\ Dominate(front[i], e)
        /\ \A j \in 1..(i - 1) : ~Dominate(front[j], e)

\* C24 (Spec): a push that returns false leaves the length and the content of
\* the front as they were; the only change is that the first member that
\* dominates new_element has changed places with the member just before it, and
\* there is no change at all when that member is the first of the front.
C24_RejectedPushFrame ==
    (last.op = "push" /\ ~last.ret /\ ~panicked) =>
        LET e == last.elems[1]
            index == FirstDominating(last.pre, e)
        IN  /\ \E i \in 1..Len(last.pre) : Dominate(last.pre[i], e)
            /\ Len(LastPost) = Len(last.pre)
            /\ Content(LastPost) = Content(last.pre)
            /\ LastPost = IF index = 1 THEN last.pre
                          ELSE Swap(last.pre, index, index - 1)

\* a push was rejected by the third member of a front of three distinct
\* members, which moved to the second place
C24_Witness ==
    /\ last.op = "push" /\ ~last.ret
    /\ Len(last.pre) = 3
    /\ FirstDominating(last.pre, last.elems[1]) = 3
    /\ LastPost = <<last.pre[1], last.pre[3], last.pre[2]>>
    /\ LastPost # last.pre

\* C25 (SpecConc): before into_sequential every thread-local front is an
\* antichain, whatever the interleaving of the pushes, and the elements of
\* different thread-local fronts are not compared: a push changes the pushing
\* thread's front alone, into what ParetoFront::push makes of that front and
\* the pushed element, whatever the other fronts hold.
C25_ShardsAreAntichains ==
    [][ /\ \A k \in DOMAIN inner_front' : IsAntichain(inner_front'[k])
        /\ \A t \in Threads :
             (pc[t] = "push" /\ pc'[t] = "idle") =>
                 /\ DOMAIN inner_front' = DOMAIN inner_front
                 /\ \A k \in DOMAIN inner_front :
                      inner_front'[k] =
                          IF k = front_ptr[t]
                          THEN PushFront(inner_front[k], new_element[t]).front
                          ELSE inner_front[k] ]_vars

\* before into_sequential, a thread-local front of two or more members holds a
\* member that dominates a member of another thread's front
C25_Witness ==
    /\ live
    /\ \E k1, k2 \in DOMAIN inner_front :
         /\ k1 # k2
         /\ Len(inner_front[k1]) >= 2
         /\ \E i \in 1..Len(inner_front[k1]), j \in 1..Len(inner_front[k2]) :
              Dominate(inner_front[k1][i], inner_front[k2][j])

\* C26 (Spec): every element ever offered to a front, pushed into it, given to
\* its extend or collect, or offered to a front merged into it, is a member of
\* the front or is dominated by a member; so a push of an element that was
\* offered before and is not a member returns false.
C26_Coverage ==
    /\ \A f \in Fronts, e \in Elem :
         offered[f][e] > 0 =>
             \/ Count(fronts[f], e) > 0
             \/ \E i \in 1..Len(fronts[f]) : Dominate(fronts[f][i], e)
    /\ (last.op = "push" /\ ~panicked) =>
           LET e == last.elems[1]
           IN  (offered[last.self][e] >= 2 /\ Count(last.pre, e) = 0) => ~last.ret

\* an element that a later push evicted from the front, or that was rejected,
\* is pushed again and rejected, the front holding two or more members
C26_Witness ==
    /\ last.op = "push" /\ ~last.ret
    /\ offered[last.self][last.elems[1]] >= 2
    /\ Count(last.pre, last.elems[1]) = 0
    /\ Len(last.pre) >= 2

\* push with a scan that goes through the whole front before it decides: e is
\* rejected if any member dominates it, and otherwise takes the place of the
\* members it dominates; the result is the content and the value returned
FullScanPush(front, e) ==
    IF \E j \in 1..Len(front) : Dominate(front[j], e)
    THEN [content |-> Content(front), ret |-> FALSE]
    ELSE [content |-> BagAdd(NotDominatedBy(front, e), e), ret |-> TRUE]

\* C27 (Spec): on every front reached, for every element e that could be
\* pushed next: if e dominates some member then no member dominates e, so that
\* the scan of _remove_dominated, which stops testing for rejection at the
\* first member that e dominates, gives the content and the value of a scan of
\* the whole front.
C27_EarlyExitSound ==
    \A f \in Fronts, e \in Elem :
        /\ (\E i \in 1..Len(fronts[f]) : Dominate(e, fronts[f][i])) =>
               ~(\E j \in 1..Len(fronts[f]) : Dominate(fronts[f][j], e))
        /\ LET r == PushFront(fronts[f], e)
               full == FullScanPush(fronts[f], e)
           IN  r.ret = full.ret /\ Content(r.front) = full.content

\* a push was admitted after the scan passed a member that the element does
\* not dominate, found a member that it dominates, and left a member behind
\* that one without testing whether it dominates the element
C27_Witness ==
    /\ last.op = "push" /\ last.ret
    /\ Len(last.pre) >= 3
    /\ ~Dominate(last.elems[1], last.pre[1])
    /\ Dominate(last.elems[1], last.pre[2])
    /\ ~Dominate(last.elems[1], last.pre[3])

C29_GuardedEquivalent ==
    [][ /\ \A t \in Threads :
             (pc[t] = "push" /\ pc'[t] = "idle") =>
                 ret'[t] = Head(safe_results[t]).ret
        /\ (~live' /\ ~safe_live') =>
               Content(sequential') = Content(safe_sequential') ]_vars

\* both aggregators were consumed after two or more threads pushed; the
\* reduction evicted a member of a thread's front, and the two fronts
\* returned hold the same elements
C29_Witness ==
    /\ ~live /\ ~safe_live
    /\ Len(folded) >= 2
    /\ \E i, j \in 1..Len(folded) :
         /\ i # j
         /\ \E m \in 1..Len(folded[i]), n \in 1..Len(folded[j]) :
              Dominate(folded[i][m], folded[j][n])
    /\ Len(sequential) >= 2
    /\ Content(sequential) = Content(safe_sequential)

\* C30 (SpecMain): with the example program's dominance, under which an element
\* dominates every element equal to it, the push of an element equal to a
\* member returns false and leaves the content of the front as it was, and no
\* front holds two equal elements.
C30_ReflexiveNoDuplicates ==
    /\ \A f \in Fronts : \A i, j \in 1..Len(fronts[f]) :
           i # j => fronts[f][i] # fronts[f][j]
    /\ (last.op = "push" /\ Count(last.pre, last.elems[1]) > 0) =>
           /\ ~last.ret
           /\ Content(LastPost) = Content(last.pre)

\* the push of an element equal to the second or a later member of a front
\* was rejected
C30_Witness ==
    /\ dominance.custom
    /\ last.op = "push" /\ ~last.ret
    /\ Len(last.pre) >= 2
    /\ Count(last.pre, last.elems[1]) = 1
    /\ last.pre[1] # last.elems[1]
    /\ Dominate(last.elems[1], last.elems[1])

====
